---- MODULE Spec2Model ----
(***************************************************************************)
(* Document ingestion and search core of src/file_manager.py:              *)
(* DocumentChunker.chunk_text, FileManager.upload_file,                    *)
(* FileManager.clean_search_query, FileManager.fallback_search and         *)
(* FileManager.search_files, over an SQLite store (tables files, chunks    *)
(* and the FTS5 table file_search) and the managed storage directory.      *)
(*                                                                         *)
(* A text is a sequence of one-character strings.  A Python exception is   *)
(* a result record whose field raised is TRUE.                             *)
(***************************************************************************)
EXTENDS Integers, Sequences, FiniteSets, TLC

\* ------------------------------------------------------------------------
\* Bounds of the model
\* ------------------------------------------------------------------------
\* longest text given to chunk_text in SpecChunker
MaxTextLen == 8
\* largest max_chunk_size / overlap_size a DocumentChunker is built with
MaxChunkCfg == 2

\* longest query given to search_files
MaxQueryLen == 2
\* latest value of the clock read by generate_file_id
MaxClock == 1

VARIABLES
    chunker,         \* FileManager.chunker: max_chunk_size and overlap_size
    disk,            \* source files: path -> bytes
    storage,         \* managed storage directory: stored name -> bytes
    files,           \* committed rows of table files
    chunks,          \* committed rows of table chunks
    file_search,     \* committed rows of the FTS5 table file_search
    lock,            \* the connection holding SQLite's write lock, or NoThread
    now,             \* datetime.now()
    up,              \* per request thread: its upload_file activation
    rd,              \* the get_file_content activation of the reading thread
    chunked,         \* last chunk_text call made on the chunker alone
    searched,        \* last search_files call
    bulk             \* the bulk_upload activation

vars == <<chunker, disk, storage, files, chunks, file_search,
          lock, now, up, rd, chunked, searched, bulk>>

\* ------------------------------------------------------------------------
\* Strings
\* ------------------------------------------------------------------------
Min(a, b) == IF a <= b THEN a ELSE b

\* str.isspace() of one character
IsSpace(c) == c \in {" ", "\n"}

\* Sequences over S of length at most n
SeqUpTo(S, n) == UNION {[1..k -> S] : k \in 0..n}

RECURSIVE SplitFrom(_, _, _, _)
\* str.split() scanning s from position i: cur is the word being read,
\* acc the words read so far
SplitFrom(s, i, cur, acc) ==
    IF i > Len(s)
    THEN IF cur = <<>> THEN acc ELSE Append(acc, cur)
    ELSE IF IsSpace(s[i])
         THEN SplitFrom(s, i + 1, <<>>, IF cur = <<>> THEN acc ELSE Append(acc, cur))
         ELSE SplitFrom(s, i + 1, Append(cur, s[i]), acc)

\* text.split(): the maximal runs of non-whitespace characters, in order
split(s) == SplitFrom(s, 1, <<>>, <<>>)

RECURSIVE JoinWith(_, _)
\* sep.join(parts)
JoinWith(sep, parts) ==
    IF parts = <<>> THEN <<>>
    ELSE IF Len(parts) = 1 THEN parts[1]
    ELSE parts[1] \o sep \o JoinWith(sep, Tail(parts))

\* ' '.join(words)
join(words) == JoinWith(<<" ">>, words)

\* words[i:j] of Python (0-based, end exclusive, clipped to the list)
Slice(words, i, j) == SubSeq(words, i + 1, Min(j, Len(words)))

\* ------------------------------------------------------------------------
\* DocumentChunker
\* ------------------------------------------------------------------------
\* DocumentChunker.__init__(max_chunk_size=4000, overlap_size=200)
DefaultMaxChunkSize == 4000
DefaultOverlapSize == 200

\* f"{document_id}_chunk_{index}"
ChunkId(document_id, index) == <<document_id, "chunk", index>>

\* total_chunks = (len(words) + max_chunk_size - 1) // max_chunk_size
TotalChunks(n, max_chunk_size) == (n + max_chunk_size - 1) \div max_chunk_size

RECURSIVE WindowStarts_no_overlap(_, _, _, _, _)
\* WindowStarts advancing by the whole window
WindowStarts_no_overlap(i, n, max_chunk_size, step, acc) ==
    IF step > 0 /\ i < n
    THEN IF i + max_chunk_size >= n
         THEN Append(acc, i)
         ELSE WindowStarts_no_overlap(i + max_chunk_size, n, max_chunk_size, step,
                                      Append(acc, i))
    ELSE acc

RECURSIVE WindowStarts_late_break(_, _, _, _, _)
\* WindowStarts leaving the loop only once the window passes the end
WindowStarts_late_break(i, n, max_chunk_size, step, acc) ==
    IF step > 0 /\ i < n
    THEN IF i + max_chunk_size > n
         THEN Append(acc, i)
         ELSE WindowStarts_late_break(i + step, n, max_chunk_size, step, Append(acc, i))
    ELSE acc

RECURSIVE WindowStarts(_, _, _, _, _)
\* The values of i at which the loop of chunk_text appends a chunk:
\* for i in range(0, n, step): append; if i + max_chunk_size >= n: break
WindowStarts(i, n, max_chunk_size, step, acc) ==
    IF step > 0 /\ i < n
    THEN IF i + max_chunk_size >= n
         THEN Append(acc, i)
         ELSE WindowStarts(i + step, n, max_chunk_size, step, Append(acc, i))
    ELSE acc

\* SingleChunk returning no chunk for a text without words
SingleChunk_none_if_empty(text, document_id) ==
    IF split(text) = <<>> THEN <<>>
    ELSE << [chunk_id |-> ChunkId(document_id, 0), content |-> text,
             chunk_index |-> 0, total_chunks |-> 1] >>

\* SingleChunk storing the words joined again instead of the text
SingleChunk_joined(text, document_id) ==
    << [chunk_id |-> ChunkId(document_id, 0), content |-> join(split(text)),
        chunk_index |-> 0, total_chunks |-> 1] >>

\* lines 128-133: the list returned for a text of at most max_chunk_size words
SingleChunk(text, document_id) ==
    << [chunk_id |-> ChunkId(document_id, 0),
        content |-> text,
        chunk_index |-> 0,
        total_chunks |-> 1] >>

\* chunk_text(text, document_id) of a chunker built with (max_chunk_size,
\* overlap_size).  raised: ZeroDivisionError of the // or ValueError of a
\* range() with step 0.  A negative step makes range() empty.
chunk_text(text, document_id, max_chunk_size, overlap_size) ==
    LET words == split(text)
        n == Len(words)
        step == max_chunk_size - overlap_size
    IN  IF n <= max_chunk_size
        THEN [raised |-> FALSE, chunks |-> SingleChunk(text, document_id)]
        ELSE IF max_chunk_size = 0 \/ step = 0
        THEN [raised |-> TRUE, chunks |-> <<>>]
        ELSE LET starts == WindowStarts(0, n, max_chunk_size, step, <<>>)
             IN [raised |-> FALSE,
                 chunks |-> [k \in 1..Len(starts) |->
                     [chunk_id |-> ChunkId(document_id, k - 1),
                      content |-> join(Slice(words, starts[k], starts[k] + max_chunk_size)),
                      chunk_index |-> k - 1,
                      total_chunks |-> TotalChunks(n, max_chunk_size)]]]

\* ------------------------------------------------------------------------
\* Files, names and types
\* ------------------------------------------------------------------------
\* the request threads: the server runs each request on a thread of its own
Threads == {"t1", "t2"}
NoThread == "none"
\* the file_id of an activation that has generated none
NoId == <<>>
NoValue == "None"
\* the chunk_index argument of get_file_content left at its default None
NoIndex == -1

NameA == <<"a", ".", "t", "x", "t">>
NameB == <<"b", ".", "p", "d", "f">>
NameE == <<"e", ".", "t", "x", "t">>
NameM == <<"m", ".", "t", "x", "t">>
Paths == {NameA, NameB, NameE, NameM}
Categories == {"hr", "law"}

\* four words, the second written after two spaces
LongText == <<"a", " ", " ", "b", " ", "a", "b", " ", "a">>
\* a PDF of two pages, "b" and "ab"; "\f" stands for the page boundary
PdfText == <<"b", "\f", "a", "b">>

\* the source files the requests refer to; NameM does not exist
InitDisk ==
    [p \in Paths \ {NameM} |->
        IF p = NameA THEN LongText
        ELSE IF p = NameB THEN PdfText
        ELSE <<>>]

\* Path(file_path).suffix: the name from its last "." on
Suffix(name) ==
    LET dots == {i \in 2..Len(name) : name[i] = "."}
    IN  IF dots = {} THEN <<>>
        ELSE SubSeq(name, CHOOSE i \in dots : \A j \in dots : j <= i, Len(name))

\* detect_file_type: type_mapping.get(extension, 'unknown')
detect_file_type(name) ==
    LET extension == Suffix(name)
    IN  IF extension = <<".", "p", "d", "f">> THEN "pdf"
        ELSE IF extension = <<".", "d", "o", "c", "x">> THEN "docx"
        ELSE IF extension = <<".", "t", "x", "t">> THEN "text"
        ELSE IF extension = <<".", "m", "d">> THEN "markdown"
        ELSE "unknown"

\* generate_file_id: md5 of f"{filename}_{timestamp}", one id per pair
generate_file_id(filename, timestamp) == <<filename, timestamp>>

\* calculate_file_hash: md5 of the bytes
calculate_file_hash(bytes) == <<"md5", bytes>>

\* storage_dir / f"{file_id}_{file_path.name}"
StoragePath(file_id, name) == <<file_id, name>>

\* The types whose extractor runs inside try/except Exception and returns "".
CatchingTypes == {"pdf", "docx", "excel", "html", "markdown"}

\* what can go wrong inside an extractor: "decode" is a UnicodeDecodeError
\* (for a text file, of the UTF-8 and of the cp1251 reading), "io" an
\* OSError of open() or read() or an error of the parser
ExtractFaults == {"none", "decode", "io"}

RECURSIVE PagesFrom(_, _, _, _)
\* pdf_reader.pages scanning the bytes from position i
PagesFrom(bytes, i, cur, acc) ==
    IF i > Len(bytes) THEN Append(acc, cur)
    ELSE IF bytes[i] = "\f" THEN PagesFrom(bytes, i + 1, <<>>, Append(acc, cur))
    ELSE PagesFrom(bytes, i + 1, Append(cur, bytes[i]), acc)

\* pdf_reader.pages: the texts of the pages, in page order
Pages(bytes) == PagesFrom(bytes, 1, <<>>, <<>>)

RECURSIVE PageTexts(_, _, _)
\* the loop of lines 37-38 from page k on: text += page.extract_text() + "\n"
PageTexts(pages, k, skipped) ==
    IF k > Len(pages) THEN <<>>
    ELSE (IF k = skipped THEN <<>> ELSE pages[k]) \o <<"\n">>
         \o PageTexts(pages, k + 1, skipped)

\* extract_text_from_pdf, lines 30-42.  failing_page: the number of the page
\* whose extract_text() raises, 0 for none.  One try/except Exception holds
\* the open and the whole loop.
extract_text_from_pdf(bytes, fault, failing_page) ==
    IF fault # "none" \/ failing_page \in 1..Len(Pages(bytes)) THEN <<>>
    ELSE PageTexts(Pages(bytes), 1, 0)

\* extract_text_from_txt, lines 76-88: except UnicodeDecodeError only, and
\* inside it try/except Exception around the cp1251 reading
extract_text_from_txt(bytes, fault) ==
    IF fault = "none" THEN [raised |-> FALSE, text |-> bytes]
    ELSE IF fault = "decode" THEN [raised |-> FALSE, text |-> <<>>]
    ELSE [raised |-> TRUE, text |-> <<>>]

\* extract_text_content(storage_path, file_type), lines 308-320, on a file
\* holding bytes.  extract_text_from_txt is also the extractor of a type
\* without one.
extract_text_content(bytes, file_type, fault, failing_page) ==
    IF file_type = "pdf"
    THEN [raised |-> FALSE, text |-> extract_text_from_pdf(bytes, fault, failing_page)]
    ELSE IF file_type \in CatchingTypes
    THEN [raised |-> FALSE, text |-> IF fault = "none" THEN bytes ELSE <<>>]
    ELSE extract_text_from_txt(bytes, fault)

\* ------------------------------------------------------------------------
\* FileManager.upload_file, one request thread t
\* ------------------------------------------------------------------------
NoTx == [files |-> {}, chunks |-> {}, file_search |-> {}]

\* what survives a crash: the three tables and the storage directory
Durable == [files |-> files, chunks |-> chunks, file_search |-> file_search,
            storage |-> storage]

IdleUp == [pc |-> "idle", file_path |-> NoValue, category |-> NoValue,
           file_id |-> NoId, file_type |-> NoValue, text_content |-> <<>>,
           chunks |-> <<>>, k |-> 0, tx |-> NoTx, result |-> NoValue,
           pre |-> NoValue, extract_fault |-> "none", failed_page |-> 0]

\* Raise with a handler that commits what the connection has written
Raise_commits(t, error) ==
    /\ up' = [up EXCEPT ![t].pc = "done", ![t].tx = NoTx,
                        ![t].result = [success |-> FALSE, error |-> error]]
    /\ lock' = IF lock = t THEN NoThread ELSE lock
    /\ files' = files \cup up[t].tx.files
    /\ chunks' = chunks \cup up[t].tx.chunks
    /\ file_search' = file_search \cup up[t].tx.file_search

\* lines 397-399: except Exception as e: return {'success': False,
\* 'error': str(e)}.  The connection is dropped uncommitted: its transaction
\* is rolled back and its lock released.
Raise(t, error) ==
    /\ up' = [up EXCEPT ![t].pc = "done", ![t].tx = NoTx,
                        ![t].result = [success |-> FALSE, error |-> error]]
    /\ lock' = IF lock = t THEN NoThread ELSE lock
    /\ UNCHANGED <<files, chunks, file_search>>

\* lines 325-334: the existence check, the id, the type and the hash
upload_begin(t, file_path, category) ==
    /\ up[t].pc = "idle"
    /\ IF file_path \notin DOMAIN disk
       THEN up' = [up EXCEPT ![t] = [IdleUp EXCEPT !.pc = "done",
                        !.file_path = file_path, !.category = category,
                        !.pre = Durable,
                        !.result = [success |-> FALSE, error |-> "File not found"]]]
       ELSE up' = [up EXCEPT ![t] = [IdleUp EXCEPT !.pc = "copy",
                        !.file_path = file_path, !.category = category,
                        !.pre = Durable,
                        !.file_id = generate_file_id(file_path, now),
                        !.file_type = detect_file_type(file_path)]]
    /\ UNCHANGED <<chunker, disk, storage, files, chunks, file_search, lock, now,
                   rd, chunked, searched, bulk>>

\* lines 337-338: storage_path.write_bytes(file_path.read_bytes());
\* io_error: the copy fails with OSError
upload_copy(t, io_error) ==
    /\ up[t].pc = "copy"
    /\ LET storage_path == StoragePath(up[t].file_id, up[t].file_path)
       IN  \/ /\ ~io_error
              /\ storage' = [n \in DOMAIN storage \cup {storage_path} |->
                                IF n = storage_path THEN disk[up[t].file_path]
                                ELSE storage[n]]
              /\ up' = [up EXCEPT ![t].pc = "extract"]
              /\ UNCHANGED <<lock, files, chunks, file_search>>
           \/ /\ io_error
              /\ Raise(t, "OSError")
              /\ UNCHANGED storage
    /\ UNCHANGED <<chunker, disk, now, rd, chunked, searched, bulk>>

\* the str(e) of an OSError raised by the extractor
ExtractError == "OSError: open(storage_path)"

\* lines 341-344: extract the text of the stored copy and chunk it;
\* fault: what goes wrong in the extractor; failing_page: the page of a PDF
\* whose extract_text() raises.  extract_fault and failed_page record the
\* errors the extractor caught.
upload_extract(t, fault, failing_page) ==
    /\ up[t].pc = "extract"
    /\   LET storage_path == StoragePath(up[t].file_id, up[t].file_path)
             ex == extract_text_content(storage[storage_path], up[t].file_type,
                                        fault, failing_page)
             ch == chunk_text(ex.text, up[t].file_id,
                              chunker.max_chunk_size, chunker.overlap_size)
         IN  IF ex.raised THEN Raise(t, ExtractError)
             ELSE IF ch.raised THEN Raise(t, "ValueError")
             ELSE /\ up' = [up EXCEPT ![t].pc = "insert_file",
                                      ![t].text_content = ex.text,
                                      ![t].chunks = ch.chunks,
                                      ![t].extract_fault = fault,
                                      ![t].failed_page =
                                          IF up[t].file_type = "pdf" /\ fault = "none"
                                             /\ failing_page \in 1..Len(Pages(storage[storage_path]))
                                          THEN failing_page ELSE 0]
                  /\ UNCHANGED <<lock, files, chunks, file_search>>
    /\ UNCHANGED <<chunker, disk, storage, now, rd, chunked, searched, bulk>>

\* FileRow recording the total_chunks the chunker declared
FileRow_declared_total(t) ==
    [id |-> up[t].file_id, filename |-> up[t].file_path,
     file_type |-> up[t].file_type,
     content_hash |-> calculate_file_hash(disk[up[t].file_path]),
     category |-> up[t].category, description |-> NoValue,
     upload_date |-> now, processed |-> TRUE,
     chunk_count |-> IF up[t].chunks = <<>> THEN 0 ELSE up[t].chunks[1].total_chunks,
     owner |-> t]

\* the row of lines 351-360; owner records the request that wrote it
FileRow(t) ==
    [id |-> up[t].file_id, filename |-> up[t].file_path,
     file_type |-> up[t].file_type,
     content_hash |-> calculate_file_hash(disk[up[t].file_path]),
     category |-> up[t].category, description |-> NoValue,
     upload_date |-> now, processed |-> TRUE,
     chunk_count |-> Len(up[t].chunks), owner |-> t]

\* lines 347-360: connect and INSERT INTO files.  The INSERT opens the
\* transaction and takes the write lock; a duplicate id is an IntegrityError.
upload_insert_file(t) ==
    /\ up[t].pc = "insert_file"
    /\ lock = NoThread
    /\ IF \E f \in files : f.id = up[t].file_id
       THEN Raise(t, "IntegrityError")
       ELSE /\ up' = [up EXCEPT ![t].pc = IF up[t].chunks = <<>> THEN "commit"
                                          ELSE "insert_chunk",
                                ![t].k = 1,
                                ![t].tx = [NoTx EXCEPT !.files = {FileRow(t)}]]
            /\ lock' = t
            /\ UNCHANGED <<files, chunks, file_search>>
    /\ UNCHANGED <<chunker, disk, storage, now, rd, chunked, searched, bulk>>

\* lines 351-360 while another connection holds the write lock: the busy
\* timeout ends in OperationalError (database is locked)
upload_busy(t) ==
    /\ up[t].pc = "insert_file"
    /\ lock \notin {NoThread, t}
    /\ Raise(t, "OperationalError")
    /\ UNCHANGED <<chunker, disk, storage, now, rd, chunked, searched, bulk>>

\* the rows of lines 364-380 for chunk number k of the call
ChunkRow(t) ==
    LET chunk == up[t].chunks[up[t].k]
    IN  [id |-> chunk.chunk_id, file_id |-> up[t].file_id,
         chunk_index |-> chunk.chunk_index, content |-> chunk.content,
         owner |-> t]

FtsRow(t) ==
    LET chunk == up[t].chunks[up[t].k]
    IN  [file_id |-> up[t].file_id, chunk_index |-> chunk.chunk_index,
         filename |-> up[t].file_path, content |-> chunk.content,
         category |-> up[t].category, owner |-> t]

\* upload_insert_chunk without the try/except of lines 373-383
upload_insert_chunk_index_raises(t, store_error, indexed) ==
    /\ up[t].pc = "insert_chunk"
    /\ \/ /\ store_error \/ ~indexed
          /\ Raise(t, "sqlite3.Error")
       \/ /\ ~store_error /\ indexed
          /\ up' = [up EXCEPT
                   ![t].tx.chunks = @ \cup {ChunkRow(t)},
                   ![t].tx.file_search = @ \cup {FtsRow(t)},
                   ![t].k = @ + 1,
                   ![t].pc = IF up[t].k = Len(up[t].chunks) THEN "commit"
                             ELSE "insert_chunk"]
          /\ UNCHANGED <<lock, files, chunks, file_search>>
    /\ UNCHANGED <<chunker, disk, storage, now, rd, chunked, searched, bulk>>

\* lines 363-383, one iteration of the loop: INSERT INTO chunks, whose
\* error (store_error) ends the call, then INSERT INTO file_search, whose
\* error (not indexed) is logged
upload_insert_chunk(t, store_error, indexed) ==
    /\ up[t].pc = "insert_chunk"
    /\ \/ /\ store_error
          /\ Raise(t, "sqlite3.Error")
       \/ /\ ~store_error
          /\ up' = [up EXCEPT
                   ![t].tx.chunks = @ \cup {ChunkRow(t)},
                   ![t].tx.file_search = IF indexed THEN @ \cup {FtsRow(t)} ELSE @,
                   ![t].k = @ + 1,
                   ![t].pc = IF up[t].k = Len(up[t].chunks) THEN "commit"
                             ELSE "insert_chunk"]
          /\ UNCHANGED <<lock, files, chunks, file_search>>
    /\ UNCHANGED <<chunker, disk, storage, now, rd, chunked, searched, bulk>>

\* upload_commit writing the files row with INSERT OR REPLACE keyed by
\* filename
upload_commit_replaces(t) ==
    /\ up[t].pc = "commit"
    /\ files' = {f \in files : f.filename # up[t].file_path} \cup up[t].tx.files
    /\ chunks' = chunks \cup up[t].tx.chunks
    /\ file_search' = file_search \cup up[t].tx.file_search
    /\ lock' = NoThread
    /\ up' = [up EXCEPT ![t].pc = "done", ![t].tx = NoTx,
                        ![t].result = [success |-> TRUE, file_id |-> up[t].file_id,
                                       chunks |-> Len(up[t].chunks)]]
    /\ UNCHANGED <<chunker, disk, storage, now, rd, chunked, searched, bulk>>

\* lines 385-395: conn.commit() publishes the transaction
upload_commit(t) ==
    /\ up[t].pc = "commit"
    /\ files' = files \cup up[t].tx.files
    /\ chunks' = chunks \cup up[t].tx.chunks
    /\ file_search' = file_search \cup up[t].tx.file_search
    /\ lock' = NoThread
    /\ up' = [up EXCEPT ![t].pc = "done", ![t].tx = NoTx,
                        ![t].result = [success |-> TRUE, file_id |-> up[t].file_id,
                                       chunks |-> Len(up[t].chunks)]]
    /\ UNCHANGED <<chunker, disk, storage, now, rd, chunked, searched, bulk>>

\* the clock of datetime.now() advances
Tick ==
    /\ now < MaxClock
    /\ now' = now + 1
    /\ UNCHANGED <<chunker, disk, storage, files, chunks, file_search, lock,
                   up, rd, chunked, searched, bulk>>

\* ------------------------------------------------------------------------
\* FileManager.get_file_content(file_id), on the reading thread
\* ------------------------------------------------------------------------
RECURSIVE OrderByIndex(_)
\* ORDER BY chunk_index
OrderByIndex(rows) ==
    IF rows = {} THEN <<>>
    ELSE LET first == CHOOSE r \in rows : \A q \in rows : r.chunk_index <= q.chunk_index
         IN  <<first>> \o OrderByIndex(rows \ {first})

\* the ids a request can name: of a committed document, of an upload in
\* flight, and one that no document has
RequestIds ==
    {f.id : f \in files} \cup {up[t].file_id : t \in {u \in Threads : up[u].file_id # NoId}}
        \cup {generate_file_id(NameM, 0)}

\* lines 560-580: with a chunk_index, SELECT content FROM chunks WHERE
\* file_id = ? AND chunk_index = ? and fetchone(); without one, SELECT
\* content FROM chunks WHERE file_id = ? ORDER BY chunk_index.  The
\* statement reads the committed rows; the connection is in autocommit, so
\* the next statement is a transaction of its own.
get_file_content_chunks(file_id, chunk_index) ==
    /\ rd.pc = "idle"
    /\ rd' = [rd EXCEPT !.pc = "info", !.file_id = file_id,
                        !.chunk_index = chunk_index,
                        !.rows = OrderByIndex({c \in chunks :
                                     /\ c.file_id = file_id
                                     /\ chunk_index # NoIndex =>
                                            c.chunk_index = chunk_index})]
    /\ UNCHANGED <<chunker, disk, storage, files, chunks, file_search, lock, now,
                   up, chunked, searched, bulk>>

\* lines 580-601: join the contents, SELECT the file row, return
get_file_content_info ==
    /\ rd.pc = "info"
    /\ LET file_info == {f \in files : f.id = rd.file_id}
           content == IF rd.chunk_index # NoIndex
                      THEN IF rd.rows # <<>> THEN rd.rows[1].content ELSE <<>>
                      ELSE JoinWith(<<"\n", "\n">>,
                                    [i \in 1..Len(rd.rows) |-> rd.rows[i].content])
       IN  rd' = [rd EXCEPT !.pc = "done",
                   !.result = IF file_info = {} THEN [error |-> "File not found"]
                              ELSE LET f == CHOOSE f \in file_info : TRUE
                                   IN  [content |-> content, filename |-> f.filename,
                                        file_type |-> f.file_type, category |-> f.category,
                                        description |-> f.description,
                                        chunk_count |-> f.chunk_count]]
    /\ UNCHANGED <<chunker, disk, storage, files, chunks, file_search, lock, now,
                   up, chunked, searched, bulk>>

\* ------------------------------------------------------------------------
\* Specification of concurrent requests
\* ------------------------------------------------------------------------
\* DocumentChunker(max_chunk_size, overlap_size) with a positive step
ValidConfigs ==
    {c \in [max_chunk_size : 1..MaxChunkCfg, overlap_size : 0..MaxChunkCfg] :
        c.overlap_size < c.max_chunk_size}

\* FileManager.__init__ builds DocumentChunker() with the defaults 4000 and
\* 200; the model scales the window down and keeps 0 < overlap < max
ScaledDefault == [max_chunk_size |-> MaxChunkCfg, overlap_size |-> 1]

\* no search_files call has been made
NotSearched == [called |-> FALSE]

\* no chunk_text call has been made on the chunker alone
NotChunked == [called |-> FALSE, text |-> <<>>, out |-> [raised |-> FALSE, chunks |-> <<>>]]

IdleRd == [pc |-> "idle", file_id |-> NoId, chunk_index |-> NoIndex, rows |-> <<>>,
           result |-> NoValue]

\* no bulk_upload call has been made
IdleBulk == [pc |-> "idle", todo |-> {}, current |-> NoValue, calls |-> <<>>,
             successful |-> <<>>, failed |-> <<>>, result |-> NoValue]

Init ==
    /\ chunker = ScaledDefault
    /\ disk = InitDisk
    /\ storage = <<>>
    /\ files = {}
    /\ chunks = {}
    /\ file_search = {}
    /\ lock = NoThread
    /\ now = 0
    /\ up = [t \in Threads |-> IdleUp]
    /\ rd = IdleRd
    /\ chunked = NotChunked
    /\ searched = NotSearched
    /\ bulk = IdleBulk

Next ==
    \/ \E t \in Threads, file_path \in Paths \ {NameB} : upload_begin(t, file_path, "hr")
    \/ \E t \in Threads, io_error \in BOOLEAN : upload_copy(t, io_error)
    \/ \E t \in Threads, fault \in {"none", "io"} : upload_extract(t, fault, 0)
    \/ \E t \in Threads : upload_insert_file(t)
    \/ \E t \in Threads : upload_busy(t)
    \/ \E t \in Threads, store_error, indexed \in BOOLEAN :
           upload_insert_chunk(t, store_error, indexed)
    \/ \E t \in Threads : upload_commit(t)
    \/ \E file_id \in RequestIds : get_file_content_chunks(file_id, NoIndex)
    \/ get_file_content_info
    \/ Tick

Spec == Init /\ [][Next]_vars

\* ------------------------------------------------------------------------
\* FileManager.clean_search_query, fallback_search and search_files
\* ------------------------------------------------------------------------
\* A character that is not ASCII is written by its name.
\* line 495: ['ə', 'ı', 'ö', 'ü', 'ğ', 'ş', 'ç']
AzerbaijaniChars == {"schwa", "dotless_i", "o_uml", "u_uml", "g_breve", "s_cedilla",
                     "c_cedilla"}
\* line 496: ['"', "'", '?', '(', ')', '[', ']']
SpecialChars == {"\"", "'", "?", "(", ")", "[", "]"}
\* lines 406-416: the characters replace() removes
RemovedChars == {"\"", "'", "?", "(", ")", "[", "]", "{", "}", "*", "+"}
\* other characters outside ASCII: capital schwa and e with acute accent
OtherNonAscii == {"SCHWA", "e_acute"}
NonAsciiChars == AzerbaijaniChars \cup OtherNonAscii
\* the letters and digits of the model's alphabet
WordChars == {"a", "b", "A", "t", "x", "p", "d", "f"} \cup NonAsciiChars

QueryChars == {"a", "b", "A", " ", "-", "."} \cup RemovedChars \cup NonAsciiChars

\* Replaced removing only the first occurrence of each character
Replaced_first_only(query) ==
    LET idx == {i \in 1..Len(query) :
                   \/ query[i] \notin RemovedChars
                   \/ \E j \in 1..(i - 1) : query[j] = query[i]}
        kept == [k \in 1..Cardinality(idx) |->
                    query[CHOOSE i \in idx : Cardinality({j \in idx : j <= i}) = k]]
    IN  [i \in 1..Len(kept) |-> IF kept[i] = "-" THEN " " ELSE kept[i]]

\* lines 406-417: the chain of replace() calls
Replaced(query) ==
    LET kept == SelectSeq(query, LAMBDA c : c \notin RemovedChars)
    IN  [i \in 1..Len(kept) |-> IF kept[i] = "-" THEN " " ELSE kept[i]]

\* clean_search_query(query), lines 401-427
clean_search_query(query) ==
    LET replaced == Replaced(query)
        cleaned_words == SelectSeq(split(replaced), LAMBDA word : Len(word) >= 2)
    IN  IF cleaned_words # <<>> THEN join(cleaned_words) ELSE replaced

\* not s.strip()
IsBlank(s) == \A i \in 1..Len(s) : IsSpace(s[i])

\* LIKE folds the case of ASCII letters only
AsciiLower(c) == IF c = "A" THEN "a" ELSE c

RECURSIVE LikeFrom(_, _, _, _)
\* s from position i matches the LIKE pattern p from position j: % stands
\* for any run of characters, _ for any one character, and any other
\* character for itself, ASCII letters without regard to case
LikeFrom(s, i, p, j) ==
    IF j > Len(p) THEN i > Len(s)
    ELSE IF p[j] = "%"
         THEN \E k \in i..(Len(s) + 1) : LikeFrom(s, k, p, j + 1)
    ELSE /\ i <= Len(s)
         /\ p[j] = "_" \/ AsciiLower(s[i]) = AsciiLower(p[j])
         /\ LikeFrom(s, i + 1, p, j + 1)

\* s LIKE ? with the parameter f"%{q}%" of line 447
Like(s, q) == LikeFrom(s, 1, <<"%">> \o q \o <<"%">>, 1)

\* SUBSTR(c.content, 1, 300)
SnippetLen == 300
\* LIMIT 20
SearchLimit == 20

RECURSIVE OrderByUploadDesc_ascending(_)
\* OrderByUploadDesc with ORDER BY f.upload_date ASC
OrderByUploadDesc_ascending(rows) ==
    IF rows = {} THEN <<>>
    ELSE LET first == CHOOSE r \in rows : \A q \in rows : r.upload_date <= q.upload_date
         IN  <<first>> \o OrderByUploadDesc_ascending(rows \ {first})

RECURSIVE OrderByUploadDesc(_)
\* ORDER BY f.upload_date DESC; rows of one date come in an order SQLite picks
OrderByUploadDesc(rows) ==
    IF rows = {} THEN <<>>
    ELSE LET first == CHOOSE r \in rows : \A q \in rows : r.upload_date >= q.upload_date
         IN  <<first>> \o OrderByUploadDesc(rows \ {first})

\* the dicts built from the rows of ORDER BY f.upload_date DESC LIMIT 20
HitList(rows) ==
    LET ordered == OrderByUploadDesc(rows)
    IN  [i \in 1..Min(SearchLimit, Len(ordered)) |-> ordered[i].hit]

\* Filtered without the AND f.file_type = ? of lines 453-455 and 524-526
Filtered_category_only(f, category, file_type) ==
    category # NoValue => f.category = category

\* the category and file_type predicates appended to the WHERE clause
Filtered(f, category, file_type) ==
    /\ category # NoValue => f.category = category
    /\ file_type # NoValue => f.file_type = file_type

Hit(f, snippet) ==
    [file_id |-> f.id, filename |-> f.filename, file_type |-> f.file_type,
     category |-> f.category, description |-> f.description,
     chunk_count |-> f.chunk_count, snippet |-> snippet]

\* the rows of the SELECT DISTINCT of lines 435-460 over files JOIN chunks;
\* description is NULL in every row
LikeRows(query, category, file_type) ==
    {[hit |-> Hit(fc[1], SubSeq(fc[2].content, 1, Min(SnippetLen, Len(fc[2].content)))),
      upload_date |-> fc[1].upload_date] :
     fc \in {x \in files \X chunks :
                /\ x[1].id = x[2].file_id
                /\ Like(x[2].content, query) \/ Like(x[1].filename, query)
                /\ Filtered(x[1], category, file_type)}}

\* fallback_search whose handler lets the error of execute() out
fallback_search_propagates(query, category, file_type, like_error) ==
    IF like_error THEN [raised |-> TRUE, results |-> <<>>]
    ELSE [raised |-> FALSE, results |-> HitList(LikeRows(query, category, file_type))]

\* fallback_search(query, category, file_type), lines 429-480.  like_error:
\* execute() of the LIKE statement fails; lines 477-480 return [] then.
fallback_search(query, category, file_type, like_error) ==
    IF like_error THEN [raised |-> FALSE, results |-> <<>>]
    ELSE [raised |-> FALSE, results |-> HitList(LikeRows(query, category, file_type))]

\* the tokens the FTS5 tokenizer makes of a text: its runs of letters and
\* digits, case folded
FoldCase(c) == IF c = "A" THEN "a" ELSE IF c = "SCHWA" THEN "schwa" ELSE c

RECURSIVE TokensFrom(_, _, _, _)
TokensFrom(s, i, cur, acc) ==
    IF i > Len(s)
    THEN IF cur = <<>> THEN acc ELSE acc \cup {cur}
    ELSE IF s[i] \in WordChars
         THEN TokensFrom(s, i + 1, Append(cur, FoldCase(s[i])), acc)
         ELSE TokensFrom(s, i + 1, <<>>, IF cur = <<>> THEN acc ELSE acc \cup {cur})

Tokens(s) == TokensFrom(s, 1, <<>>, {})

\* the FTS5 query grammar takes bare words separated by blanks; any other
\* character is a syntax error raised by execute()
FtsSyntaxError(match) == \E i \in 1..Len(match) : match[i] \notin WordChars \cup {" "}

\* file_search MATCH ?: every word of the query is a token of the row
FtsMatch(fs, match) ==
    \A word \in Tokens(match) : word \in Tokens(fs.content) \cup Tokens(fs.filename)

\* the indexed query of lines 504-546: SELECT DISTINCT over files JOIN
\* file_search with the snippet() of the content column
IndexedSearch(cleaned_query, category, file_type) ==
    HitList({[hit |-> Hit(ff[1], <<"snippet", ff[2].content, cleaned_query>>),
              upload_date |-> ff[1].upload_date] :
             ff \in {x \in files \X file_search :
                        /\ x[1].id = x[2].file_id
                        /\ FtsMatch(x[2], cleaned_query)
                        /\ Filtered(x[1], category, file_type)}})

\* line 495
has_azerbaijani(query) == \E i \in 1..Len(query) : query[i] \in AzerbaijaniChars
\* line 496
has_special_chars(query) == \E i \in 1..Len(query) : query[i] \in SpecialChars

\* the handler of lines 548-551 searching with the sanitized query
FtsErrorFallback_cleaned(query, cleaned_query, category, file_type, like_error) ==
    fallback_search(cleaned_query, category, file_type, like_error)

\* lines 548-551: except Exception as fts_error: return
\* self.fallback_search(query, category, file_type)
FtsErrorFallback(query, cleaned_query, category, file_type, like_error) ==
    fallback_search(query, category, file_type, like_error)

\* search_files(query, category, file_type), lines 482-556.  index_error:
\* execute() of the MATCH statement fails for a reason other than the
\* syntax of the query.  path names the return taken; match_executed tells
\* whether the MATCH statement ran; raised whether an exception left the
\* call; unclosed counts the connections the call opened (line 484 and, in
\* fallback_search, line 431) and returned without calling close() on: the
\* returns of lines 492 and 500 leave the connection of line 484 open.
search_files(query, category, file_type, index_error, like_error) ==
    LET cleaned_query == clean_search_query(query)
        base == [called |-> TRUE, via |-> "call", query |-> query,
                 category |-> category, file_type |-> file_type,
                 index_error |-> index_error, like_error |-> like_error,
                 cleaned_query |-> cleaned_query]
        fallback == fallback_search(query, category, file_type, like_error)
    IN  IF IsBlank(cleaned_query)
        THEN base @@ [path |-> "cleaned_empty", match_executed |-> FALSE,
                      raised |-> fallback.raised, results |-> fallback.results,
                      unclosed |-> 1]
        ELSE IF has_azerbaijani(query) \/ has_special_chars(query)
        THEN base @@ [path |-> "special", match_executed |-> FALSE,
                      raised |-> fallback.raised, results |-> fallback.results,
                      unclosed |-> 1]
        ELSE IF index_error \/ FtsSyntaxError(cleaned_query)
        THEN LET handled == FtsErrorFallback(query, cleaned_query, category,
                                             file_type, like_error)
             IN  base @@ [path |-> "fts_error", match_executed |-> TRUE,
                          raised |-> handled.raised, results |-> handled.results,
                          unclosed |-> 0]
        ELSE base @@ [path |-> "fts", match_executed |-> TRUE, raised |-> FALSE,
                      results |-> IndexedSearch(cleaned_query, category, file_type),
                      unclosed |-> 0]

\* the /search-files route of app.py, lines 238-261: q defaults to '', an
\* empty q is answered 400, an exception 500, and the type filter is not
\* passed on
search_files_route(query, category, index_error, like_error) ==
    IF query = <<>>
    THEN [called |-> TRUE, via |-> "route", query |-> query, category |-> category,
          file_type |-> NoValue, index_error |-> index_error,
          like_error |-> like_error, cleaned_query |-> <<>>, path |-> "no_query",
          match_executed |-> FALSE, raised |-> FALSE, results |-> <<>>,
          unclosed |-> 0, status |-> 400]
    ELSE LET r == search_files(query, category, NoValue, index_error, like_error)
         IN  [r EXCEPT !.via = "route"] @@ [status |-> IF r.raised THEN 500 ELSE 200]

\* ------------------------------------------------------------------------
\* Specification of uploads served one after the other, then one search
\* ------------------------------------------------------------------------
Queries == SeqUpTo(QueryChars, MaxQueryLen)

\* the requests arrive one after the other: t1, then t2 once t1 has returned
InTurn(t) == t = "t1" \/ up["t1"].pc = "done"

\* the uploads made before the search: a text of four words, a PDF of two
\* pages, an empty text and a path that does not exist
SearchUploads == {<<NameA, "hr">>, <<NameB, "law">>, <<NameE, "hr">>, <<NameM, "law">>}

\* a /search-files request, or a caller of search_files with filters, once
\* the uploads have returned
SearchCall ==
    /\ ~searched.called
    /\ \A t \in Threads : up[t].pc = "done"
    /\ \E query \in Queries, category \in {NoValue, "hr"}, file_type \in {NoValue, "pdf"} :
         searched' = search_files(query, category, file_type, FALSE, FALSE)
    /\ UNCHANGED <<chunker, disk, storage, files, chunks, file_search, lock, now,
                   up, rd, chunked, bulk>>

NextSearch ==
    \/ \E t \in Threads, u \in SearchUploads :
           InTurn(t) /\ upload_begin(t, u[1], u[2])
    \/ \E t \in Threads : upload_copy(t, FALSE)
    \/ \E t \in Threads : upload_extract(t, "none", 0)
    \/ \E t \in Threads : upload_insert_file(t)
    \/ \E t \in Threads : upload_insert_chunk(t, FALSE, TRUE)
    \/ \E t \in Threads : upload_commit(t)
    \/ Tick
    \/ SearchCall

SpecSearch == Init /\ [][NextSearch]_vars

\* ------------------------------------------------------------------------
\* Specification of one upload whose extractor and index inserts can fail,
\* then one search whose statements can fail
\* ------------------------------------------------------------------------
\* a letter, a second letter, blank, a character FTS5 rejects, the dash, a
\* removed character that is not in the list of line 496, one that is, an
\* Azerbaijani letter, and the percent sign
IndexQueryChars == {"a", "b", " ", ".", "-", "*", "?", "schwa", "%"}
IndexQueries == SeqUpTo(IndexQueryChars, MaxQueryLen)

\* the number of pages of the PDF on disk
PdfPages == Len(Pages(PdfText))

\* the chunk_index values of the /files/<file_id> requests
ChunkIndexes == {NoIndex} \cup 0..Len(split(LongText))

\* FileManager.get_file_content called once the upload has returned
ReadAfterUpload ==
    /\ ~searched.called
    /\ up["t1"].pc = "done"
    /\ \E file_id \in RequestIds, chunk_index \in ChunkIndexes :
         get_file_content_chunks(file_id, chunk_index)

\* FileManager.search_files called once the upload has returned
SearchAfterUpload ==
    /\ ~searched.called
    /\ rd.pc = "idle"
    /\ up["t1"].pc = "done"
    /\ \E query \in IndexQueries, category \in {NoValue, "hr"},
          file_type \in {NoValue, "pdf"}, index_error, like_error \in BOOLEAN :
         searched' = search_files(query, category, file_type, index_error, like_error)
    /\ UNCHANGED <<chunker, disk, storage, files, chunks, file_search, lock, now,
                   up, rd, chunked, bulk>>

\* a GET /search-files request once the upload has returned
SearchRequest ==
    /\ ~searched.called
    /\ rd.pc = "idle"
    /\ up["t1"].pc = "done"
    /\ \E query \in IndexQueries, category \in {NoValue, "hr"},
          index_error, like_error \in BOOLEAN :
         searched' = search_files_route(query, category, index_error, like_error)
    /\ UNCHANGED <<chunker, disk, storage, files, chunks, file_search, lock, now,
                   up, rd, chunked, bulk>>

NextIndex ==
    \/ \E file_path \in {NameA, NameB} : upload_begin("t1", file_path, "hr")
    \/ upload_copy("t1", FALSE)
    \/ \E fault \in {"none", "decode"}, failing_page \in 0..PdfPages :
           upload_extract("t1", fault, failing_page)
    \/ upload_insert_file("t1")
    \/ \E indexed \in BOOLEAN : upload_insert_chunk("t1", FALSE, indexed)
    \/ upload_commit("t1")
    \/ SearchAfterUpload
    \/ SearchRequest
    \/ ReadAfterUpload
    \/ get_file_content_info

SpecIndex == Init /\ [][NextIndex]_vars

\* ------------------------------------------------------------------------
\* Specification of two uploads served one after the other at any two
\* times, then one search
\* ------------------------------------------------------------------------
\* the text of four words filed under hr and the PDF filed under law
TwoUploads == {<<NameA, "hr">>, <<NameB, "law">>}

\* FileManager.search_files called once both uploads have returned
SearchAfterTwo ==
    /\ ~searched.called
    /\ \A t \in Threads : up[t].pc = "done"
    /\ \E query \in IndexQueries, category \in {NoValue, "hr"},
          file_type \in {NoValue, "pdf"} :
         searched' = search_files(query, category, file_type, FALSE, FALSE)
    /\ UNCHANGED <<chunker, disk, storage, files, chunks, file_search, lock, now,
                   up, rd, chunked, bulk>>

NextTwo ==
    \/ \E t \in Threads, u \in TwoUploads : InTurn(t) /\ upload_begin(t, u[1], u[2])
    \/ \E t \in Threads : upload_copy(t, FALSE)
    \/ \E t \in Threads : upload_extract(t, "none", 0)
    \/ \E t \in Threads : upload_insert_file(t)
    \/ \E t \in Threads : upload_insert_chunk(t, FALSE, TRUE)
    \/ \E t \in Threads : upload_commit(t)
    \/ Tick
    \/ SearchAfterTwo

SpecTwo == Init /\ [][NextTwo]_vars

\* ------------------------------------------------------------------------
\* FileManager.bulk_upload, on the request thread t1
\* ------------------------------------------------------------------------
NameX == <<"x", ".", "p", "n", "g">>
NameD == <<"d", ".", "t", "x", "t">>

\* what directory.rglob('*') yields: three documents, a picture, and a
\* directory with the name of a text file
DirEntries ==
    {[name |-> NameA, is_file |-> TRUE], [name |-> NameB, is_file |-> TRUE],
     [name |-> NameE, is_file |-> TRUE], [name |-> NameX, is_file |-> TRUE],
     [name |-> NameD, is_file |-> FALSE]}

\* line 659
SupportedExtensions ==
    {<<".", "p", "d", "f">>, <<".", "d", "o", "c", "x">>, <<".", "x", "l", "s", "x">>,
     <<".", "t", "x", "t">>, <<".", "m", "d">>, <<".", "h", "t", "m", "l">>}

\* file_path.suffix.lower()
SuffixLower(name) == [i \in 1..Len(Suffix(name)) |-> AsciiLower(Suffix(name)[i])]

\* line 662: file_path.is_file() and file_path.suffix.lower() in
\* supported_extensions
Matching ==
    {e.name : e \in {d \in DirEntries : d.is_file /\ SuffixLower(d.name) \in SupportedExtensions}}

\* the category of the /bulk-upload request
BulkCategory == "hr"

\* lines 654-659: the directory test and the empty results
bulk_begin(exists) ==
    /\ bulk.pc = "idle"
    /\ up["t1"].pc = "idle"
    /\ bulk' = IF exists
               THEN [bulk EXCEPT !.pc = "loop", !.todo = Matching]
               ELSE [bulk EXCEPT !.pc = "done",
                                 !.result = [error |-> "Directory not found"]]
    /\ UNCHANGED <<chunker, disk, storage, files, chunks, file_search, lock, now,
                   up, rd, chunked, searched>>

\* lines 661-662: the loop comes to the next matching file, in the order
\* rglob yields them; calls records the files upload_file is called with
bulk_next ==
    /\ bulk.pc = "loop"
    /\ \E file_path \in bulk.todo :
         bulk' = [bulk EXCEPT !.pc = "call", !.current = file_path,
                              !.todo = @ \ {file_path},
                              !.calls = Append(@, file_path)]
    /\ UNCHANGED <<chunker, disk, storage, files, chunks, file_search, lock, now,
                   up, rd, chunked, searched>>

\* line 663: result = self.upload_file(str(file_path), category=category)
bulk_call ==
    /\ bulk.pc = "call"
    /\ upload_begin("t1", bulk.current, BulkCategory)

\* bulk_collect leaving the loop at the first failed upload
bulk_collect_stops_on_failure ==
    /\ bulk.pc = "call"
    /\ up["t1"].pc = "done"
    /\ bulk' = IF up["t1"].result.success
               THEN [bulk EXCEPT !.pc = "loop",
                                 !.successful = Append(@, up["t1"].result)]
               ELSE [bulk EXCEPT !.pc = "loop", !.todo = {},
                                 !.failed = Append(@, [file |-> bulk.current,
                                                       error |-> up["t1"].result.error])]
    /\ up' = [up EXCEPT !["t1"] = IdleUp]
    /\ UNCHANGED <<chunker, disk, storage, files, chunks, file_search, lock, now,
                   rd, chunked, searched>>

\* lines 664-667: the result of the returned upload_file goes to
\* successful or to failed
bulk_collect ==
    /\ bulk.pc = "call"
    /\ up["t1"].pc = "done"
    /\ bulk' = IF up["t1"].result.success
               THEN [bulk EXCEPT !.pc = "loop",
                                 !.successful = Append(@, up["t1"].result)]
               ELSE [bulk EXCEPT !.pc = "loop",
                                 !.failed = Append(@, [file |-> bulk.current,
                                                       error |-> up["t1"].result.error])]
    /\ up' = [up EXCEPT !["t1"] = IdleUp]
    /\ UNCHANGED <<chunker, disk, storage, files, chunks, file_search, lock, now,
                   rd, chunked, searched>>

\* lines 669-674: the summary
bulk_return ==
    /\ bulk.pc = "loop"
    /\ bulk.todo = {}
    /\ bulk' = [bulk EXCEPT !.pc = "done",
                   !.result = [total_processed |-> Len(bulk.successful) + Len(bulk.failed),
                               successful |-> Len(bulk.successful),
                               failed |-> Len(bulk.failed)]]
    /\ UNCHANGED <<chunker, disk, storage, files, chunks, file_search, lock, now,
                   up, rd, chunked, searched>>

\* one /bulk-upload request; the copy into storage can fail for any file
NextBulk ==
    \/ \E exists \in BOOLEAN : bulk_begin(exists)
    \/ bulk_next
    \/ bulk_call
    \/ \E io_error \in BOOLEAN : upload_copy("t1", io_error)
    \/ upload_extract("t1", "none", 0)
    \/ upload_insert_file("t1")
    \/ upload_insert_chunk("t1", FALSE, TRUE)
    \/ upload_commit("t1")
    \/ bulk_collect
    \/ bulk_return
    \/ Tick

SpecBulk == Init /\ [][NextBulk]_vars

\* ------------------------------------------------------------------------
\* Specification of the chunker alone: chunk_text on every short text, for
\* every DocumentChunker(max_chunk_size, overlap_size) of small size
\* ------------------------------------------------------------------------
TextChars == {"a", "b", " "}
Texts == SeqUpTo(TextChars, MaxTextLen)
AllConfigs == [max_chunk_size : 0..MaxChunkCfg, overlap_size : 0..MaxChunkCfg]
DocId == generate_file_id(NameA, 0)

InitChunker ==
    /\ chunker \in AllConfigs
    /\ disk = InitDisk
    /\ storage = <<>>
    /\ files = {}
    /\ chunks = {}
    /\ file_search = {}
    /\ lock = NoThread
    /\ now = 0
    /\ up = [t \in Threads |-> IdleUp]
    /\ rd = IdleRd
    /\ chunked = NotChunked
    /\ searched = NotSearched
    /\ bulk = IdleBulk

\* self.chunker.chunk_text(text, DocId), once, on any of the texts
ChunkCall ==
    /\ ~chunked.called
    /\ \E text \in Texts :
         chunked' = [called |-> TRUE, text |-> text,
                     out |-> chunk_text(text, DocId, chunker.max_chunk_size,
                                        chunker.overlap_size)]
    /\ UNCHANGED <<chunker, disk, storage, files, chunks, file_search, lock, now,
                   up, rd, searched, bulk>>

NextChunker == ChunkCall

SpecChunker == InitChunker /\ [][NextChunker]_vars

\* the configurations whose window advances: 0 <= overlap_size < max_chunk_size
ValidConfig == 0 <= chunker.overlap_size /\ chunker.overlap_size < chunker.max_chunk_size

\* what the last chunk_text call was given and what it returned
ChWords == split(chunked.text)
ChN == Len(ChWords)
ChOut == chunked.out.chunks
ChStep == chunker.max_chunk_size - chunker.overlap_size
\* the words of returned chunk number k (from 1)
ChunkWords(k) == split(ChOut[k].content)

\* s without its first n elements
Drop(n, s) == SubSeq(s, n + 1, Len(s))

RECURSIVE DropOverlapConcat(_)
\* the words of chunks k, k+1, ... in index order, every chunk but the
\* first without its first overlap_size words
DropOverlapConcat(k) ==
    IF k > Len(ChOut) THEN <<>>
    ELSE (IF k = 1 THEN ChunkWords(1) ELSE Drop(chunker.overlap_size, ChunkWords(k)))
         \o DropOverlapConcat(k + 1)

\* ------------------------------------------------------------------------
\* Claims about chunk_text (SpecChunker)
\* ------------------------------------------------------------------------

\* C5 as stated: for every text and every configured max_chunk_size and
\* overlap_size, chunk_text returns at least one chunk.
C5_AnyConfigAtLeastOneChunk ==
    chunked.called => (~chunked.out.raised /\ Len(ChOut) >= 1)

\* C5, amended: for every text (the empty and the whitespace-only text
\* included) and every configuration with 0 <= overlap_size < max_chunk_size,
\* chunk_text returns at least one chunk.
C5_ValidConfigAtLeastOneChunk ==
    (chunked.called /\ ValidConfig) => (~chunked.out.raised /\ Len(ChOut) >= 1)

\* a whitespace-only text was chunked into one chunk
C5_Witness ==
    /\ chunked.called /\ ValidConfig
    /\ chunked.text # <<>> /\ ChWords = <<>>
    /\ Len(ChOut) = 1

\* C6: for a text of more than max_chunk_size words, dropping the first
\* overlap_size words of every chunk of index k >= 1 and concatenating the
\* chunks' words in index order gives the words of the text, and the words at
\* positions [k*step, k*step + overlap_size) are in both chunk k-1 and chunk k.
C6_OverlapReconstruction ==
    (chunked.called /\ ValidConfig /\ ChN > chunker.max_chunk_size) =>
        /\ ~chunked.out.raised
        /\ DropOverlapConcat(1) = ChWords
        /\ \A k \in 2..Len(ChOut) : \A j \in 0..(chunker.overlap_size - 1) :
              LET pos == (k - 1) * ChStep + j
              IN  /\ pos < ChN
                  /\ j < Len(ChunkWords(k))
                  /\ ChStep + j < Len(ChunkWords(k - 1))
                  /\ ChunkWords(k)[j + 1] = ChWords[pos + 1]
                  /\ ChunkWords(k - 1)[ChStep + j + 1] = ChWords[pos + 1]

\* a text was split into three or more windows that overlap
C6_Witness ==
    /\ chunked.called /\ ValidConfig /\ ChN > chunker.max_chunk_size
    /\ chunker.overlap_size >= 1
    /\ Len(ChOut) >= 3

\* C7: for a text of n > max_chunk_size words, chunk k is the words at
\* offsets [k*step, min(n, k*step + max_chunk_size)) joined by single spaces,
\* every chunk but the last has max_chunk_size words, the last chunk is the
\* first window whose end reaches n, and 4500 words with the defaults 4000
\* and 200 give two windows, the second at offset 3800.
C7_WindowContents ==
    /\ (chunked.called /\ ValidConfig /\ ChN > chunker.max_chunk_size) =>
        /\ ~chunked.out.raised
        /\ Len(ChOut) >= 1
        /\ \A k \in 1..Len(ChOut) :
              /\ ChOut[k].chunk_index = k - 1
              /\ ChOut[k].content =
                     join(SubSeq(ChWords, (k - 1) * ChStep + 1,
                                 Min(ChN, (k - 1) * ChStep + chunker.max_chunk_size)))
              /\ k < Len(ChOut) =>
                     /\ Len(ChunkWords(k)) = chunker.max_chunk_size
                     /\ (k - 1) * ChStep + chunker.max_chunk_size < ChN
        /\ (Len(ChOut) - 1) * ChStep + chunker.max_chunk_size >= ChN
    /\ WindowStarts(0, 4500, DefaultMaxChunkSize,
                    DefaultMaxChunkSize - DefaultOverlapSize, <<>>) = <<0, 3800>>

\* a text whose last window ends exactly at its last word, after a full one
C7_Witness ==
    /\ chunked.called /\ ValidConfig /\ ChN > chunker.max_chunk_size
    /\ Len(ChOut) >= 2
    /\ (Len(ChOut) - 1) * ChStep + chunker.max_chunk_size = ChN

\* C8: a text of at most max_chunk_size words comes back as exactly one
\* chunk holding the text unchanged, with chunk_index 0, total_chunks 1 and
\* the id of chunk 0 of the document.
C8_SingleChunkIsWholeText ==
    (chunked.called /\ ChN <= chunker.max_chunk_size) =>
        /\ ~chunked.out.raised
        /\ Len(ChOut) = 1
        /\ ChOut[1].content = chunked.text
        /\ ChOut[1].chunk_index = 0
        /\ ChOut[1].total_chunks = 1
        /\ ChOut[1].chunk_id = ChunkId(DocId, 0)

\* a text of two words that is not its words joined by single spaces
C8_Witness ==
    /\ chunked.called /\ ChN = 2 /\ ChN <= chunker.max_chunk_size
    /\ chunked.text # join(ChWords)
    /\ Len(ChOut) = 1

\* C28: for every text and every configuration with
\* 0 <= overlap_size < max_chunk_size, the total_chunks of every returned
\* chunk is the number of chunks chunk_text returns.
C28_TotalChunksIsCount ==
    (chunked.called /\ ValidConfig) =>
        \A k \in 1..Len(ChOut) : ChOut[k].total_chunks = Len(ChOut)

\* ------------------------------------------------------------------------
\* Claims about upload_file under concurrent requests (Spec)
\* ------------------------------------------------------------------------
\* the request thread t has returned from upload_file with success False
Failed(t) == up[t].pc = "done" /\ ~up[t].result.success
\* the request thread t has returned from upload_file with success True
Succeeded(t) == up[t].pc = "done" /\ up[t].result.success

\* C1: in every state of the store, during and after any upload_file calls,
\* every committed row of files has chunk_count equal to the number of rows
\* of chunks with its id as file_id, and their chunk_index values are
\* exactly 0..chunk_count-1.
C1_ChunkCountMatchesRows ==
    \A f \in files :
        LET rows == {c \in chunks : c.file_id = f.id}
        IN  /\ Cardinality(rows) = f.chunk_count
            /\ {c.chunk_index : c \in rows} = 0..(f.chunk_count - 1)

\* one upload has committed a document of three chunks and the other one
\* has failed after writing rows in its transaction
C1_Witness ==
    \E t, u \in Threads :
        /\ Succeeded(t) /\ up[t].result.chunks >= 3
        /\ Failed(u) /\ up[u].k >= 2 /\ up[u].result.error = "sqlite3.Error"
        /\ \E f \in files : f.id = up[t].file_id

\* C2: a returned get_file_content that found the document read all of its
\* chunk rows, whatever upload was in flight.
C2_ReadSeesWholeDocument ==
    (rd.pc = "done" /\ "chunk_count" \in DOMAIN rd.result) =>
        Len(rd.rows) = rd.result.chunk_count

\* C3: an upload_file that fails returns success False with an error
\* message, and the store has no row of files, chunks or file_search written
\* by that call.
C3_FailureLeavesNoRows ==
    \A t \in Threads :
        Failed(t) =>
            /\ up[t].result.error \in {"File not found", "OSError", ExtractError,
                                       "ValueError",
                                       "IntegrityError", "OperationalError",
                                       "sqlite3.Error"}
            /\ \A r \in files \cup chunks \cup file_search : r.owner # t

\* an upload failed at its second or later chunk INSERT, with the file row
\* and a chunk row already written in its transaction
C3_Witness ==
    \E t \in Threads :
        /\ Failed(t) /\ up[t].result.error = "sqlite3.Error" /\ up[t].k >= 2

\* C4: an upload_file that returns success False leaves all durable state,
\* the tables and the storage directory, as it was before the call.  Stated
\* for a call during which no other request ran.
C4_FailureLeavesDurableStateUnchanged ==
    \A t \in Threads :
        (Failed(t) /\ \A u \in Threads \ {t} : up[u].pc = "idle") =>
            Durable = up[t].pre

\* ------------------------------------------------------------------------
\* Claims about search_files (SpecSearch)
\* ------------------------------------------------------------------------
\* the query of the last search_files call has a character of set S
QueryHas(S) == \E i \in 1..Len(searched.query) : searched.query[i] \in S

\* the call returned what fallback_search returns for the original query,
\* and its MATCH statement was not executed
WentStraightToFallback ==
    /\ ~searched.match_executed
    /\ searched.results =
           fallback_search(searched.query, searched.category, searched.file_type,
                           searched.like_error).results

\* C9: a query with any of the punctuation marks that sanitization strips
\* (double or single quote, parentheses, square brackets, braces, *, +)
\* goes to fallback_search with the original query and MATCH is not executed.
C9_StrippedPunctuationSkipsIndex ==
    (searched.called /\ QueryHas({"\"", "'", "(", ")", "[", "]", "{", "}", "*", "+"})) =>
        WentStraightToFallback

\* C10: a query with any character outside ASCII goes to fallback_search
\* with the original query and MATCH is not executed.
C10_NonAsciiSkipsIndex ==
    (searched.called /\ QueryHas(NonAsciiChars)) => WentStraightToFallback

\* the whitespace-separated tokens of the query after the replace() chain
StrippedTokens(query) == split(Replaced(query))
\* all of them are shorter than 2 characters, or there is none
AllTokensDropped(query) ==
    \A i \in 1..Len(StrippedTokens(query)) : Len(StrippedTokens(query)[i]) < 2

\* C11: when every token of the stripped query is shorter than 2 characters,
\* or nothing remains, search_files returns what fallback_search returns for
\* the original query and MATCH is not executed.
C11_DroppedTokensSkipIndex ==
    (searched.called /\ AllTokensDropped(searched.query)) => WentStraightToFallback

\* C12: the sanitized query has none of the stripped characters, no "-",
\* and no whitespace-separated token shorter than 2 characters.
C12_SanitizedQueryIsClean ==
    searched.called =>
        /\ \A i \in 1..Len(searched.cleaned_query) :
              searched.cleaned_query[i] \notin RemovedChars \cup {"-"}
        /\ \A i \in 1..Len(split(searched.cleaned_query)) :
              Len(split(searched.cleaned_query)[i]) >= 2

\* C20: two upload_file calls of the same existing file, however close in
\* time, both succeed, with distinct ids and chunk rows of their own.
C20_SameFileTwiceDistinctIds ==
    \A t, u \in Threads :
        (/\ t # u
         /\ up[t].pc = "done" /\ up[u].pc = "done"
         /\ up[t].file_path = up[u].file_path
         /\ up[t].file_path \in DOMAIN disk) =>
            /\ Succeeded(t) /\ Succeeded(u)
            /\ up[t].file_id # up[u].file_id
            /\ \A c \in chunks : c.owner = t => c.file_id = up[t].file_id

\* ------------------------------------------------------------------------
\* Claims about upload_file and search_files under failures of the
\* extractor, of the index and of the statements (SpecIndex, Spec)
\* ------------------------------------------------------------------------

\* C13: clean_search_query applied to a query it returned returns it again.
C13_SanitizeIdempotent ==
    (searched.called /\ searched.path # "no_query") =>
        clean_search_query(searched.cleaned_query) = searched.cleaned_query

\* a query that sanitization changed into a non-empty one
C13_Witness ==
    /\ searched.called /\ searched.path # "no_query"
    /\ searched.cleaned_query # searched.query
    /\ ~IsBlank(searched.cleaned_query)

\* C14: when MATCH was executed and failed, search_files returns exactly
\* what fallback_search returns for the original query and the same
\* category and file_type, and no exception leaves the call.
C14_IndexErrorFallsBackToOriginal ==
    (searched.called /\ searched.path = "fts_error") =>
        /\ searched.match_executed
        /\ ~searched.raised
        /\ searched.results =
               fallback_search(searched.query, searched.category, searched.file_type,
                               searched.like_error).results
        /\ searched.via = "route" => searched.status = 200

\* MATCH failed on the syntax of a query with a category filter, and the
\* substring search with the original query found the document
C14_Witness ==
    /\ searched.called /\ searched.path = "fts_error"
    /\ ~searched.index_error /\ ~searched.like_error
    /\ searched.category = "hr"
    /\ searched.results # <<>>

C16_BlankQueryIsRejected ==
    (searched.called /\ searched.via = "route" /\ IsBlank(searched.query)) =>
        /\ searched.status = 400
        /\ searched.results = <<>>

\* the committed chunk row c has no row in the index
Unindexed(c) ==
    ~\E fs \in file_search : fs.file_id = c.file_id /\ fs.chunk_index = c.chunk_index

\* fallback_search for query returns a hit of the document of chunk row c
FoundBySubstring(c, query) ==
    LET found == fallback_search(query, NoValue, NoValue, FALSE).results
    IN  \E i \in 1..Len(found) : found[i].file_id = c.file_id

\* C17: with failures of INSERT INTO file_search as the only failures, every
\* upload_file that returned succeeded, its files row and all its chunk rows
\* are committed, and a chunk without an index row is found by
\* fallback_search for each of its words.
C17_IndexFailureKeepsUpload ==
    \A t \in Threads :
        up[t].pc = "done" =>
            /\ Succeeded(t)
            /\ \E f \in files : f.id = up[t].file_id /\ f.chunk_count = Len(up[t].chunks)
            /\ \A k \in 1..Len(up[t].chunks) :
                  \E c \in chunks :
                      /\ c.file_id = up[t].file_id
                      /\ c.chunk_index = k - 1
                      /\ c.content = up[t].chunks[k].content
                      /\ Unindexed(c) =>
                            \A i \in 1..Len(split(c.content)) :
                                FoundBySubstring(c, split(c.content)[i])

\* an upload of three chunks returned success with one chunk indexed and
\* another one, not empty, left out of the index
C17_Witness ==
    /\ Succeeded("t1")
    /\ \E c, d \in chunks :
          /\ c.file_id = up["t1"].file_id /\ d.file_id = up["t1"].file_id
          /\ Unindexed(c) /\ split(c.content) # <<>>
          /\ ~Unindexed(d)

\* C18: an error inside the extractor, of any kind and for any file type,
\* never fails upload_file: the call succeeds and commits the document with
\* processed true and one chunk with empty content.
C18_ExtractionErrorNeverFailsUpload ==
    \A t \in Threads :
        /\ ~(Failed(t) /\ up[t].result.error = ExtractError)
        /\ (Succeeded(t) /\ up[t].extract_fault # "none") =>
              /\ \E f \in files : f.id = up[t].file_id /\ f.processed /\ f.chunk_count = 1
              /\ \A c \in chunks : c.file_id = up[t].file_id => c.content = <<>>

\* C19: when extract_text() of one page of a PDF fails, the extracted text
\* is the texts of the pages in page order, each followed by a newline,
\* with the empty string for the page that failed.
C19_FailedPageKeepsOtherPages ==
    \A t \in Threads :
        up[t].failed_page > 0 =>
            up[t].text_content =
                PageTexts(Pages(disk[up[t].file_path]), 1, up[t].failed_page)

\* ------------------------------------------------------------------------
\* Claims about concurrent uploads and about the rows of the store (Spec)
\* ------------------------------------------------------------------------

\* C21: under every interleaving of two upload_file calls, each call ends
\* as it can end when it runs alone: with success, or with one of the
\* errors of its own file, copy, extractor, chunker or INSERT.
C21_ConcurrentUploadsIndependent ==
    \A t \in Threads :
        Failed(t) =>
            up[t].result.error \in {"File not found", "OSError", ExtractError,
                                    "ValueError", "sqlite3.Error"}

\* C26: no step of any request removes or changes a committed row of files
\* or of chunks.
C26_CommittedRowsStay ==
    [][files \subseteq files' /\ chunks \subseteq chunks']_vars

\* the same file was uploaded twice with success, while reads were served:
\* the store holds both records
C26_Witness ==
    /\ Succeeded("t1") /\ Succeeded("t2")
    /\ up["t1"].file_path = up["t2"].file_path
    /\ Cardinality(files) = 2
    /\ rd.pc = "done"

\* ------------------------------------------------------------------------
\* Claims about get_file_content and search_files on a store at rest
\* (SpecIndex, SpecTwo)
\* ------------------------------------------------------------------------

\* C22: get_file_content for a chunk_index without a chunk row, or for an
\* id without a files row, returns the not-found error.
C22_MissingChunkIsNotFound ==
    (/\ rd.pc = "done"
     /\ \/ ~\E f \in files : f.id = rd.file_id
        \/ /\ rd.chunk_index # NoIndex
           /\ ~\E c \in chunks : c.file_id = rd.file_id /\ c.chunk_index = rd.chunk_index)
        => "error" \in DOMAIN rd.result

\* the time of upload of the document of a hit
UploadDateOf(file_id) == (CHOOSE f \in files : f.id = file_id).upload_date

C23_WitnessFallback ==
    /\ searched.called /\ searched.path # "fts"
    /\ \E i, j \in 1..Len(searched.results) :
          UploadDateOf(searched.results[i].file_id)
              # UploadDateOf(searched.results[j].file_id)

\* C24: every hit of search_files, on each of its paths, has the category
\* of the category filter and the file_type of the file_type filter when
\* they are given.
C24_FiltersAreExact ==
    searched.called =>
        \A i \in 1..Len(searched.results) :
            /\ searched.category # NoValue =>
                   searched.results[i].category = searched.category
            /\ searched.file_type # NoValue =>
                   searched.results[i].file_type = searched.file_type

\* a search with the file_type filter returned the PDF through its file
\* name while a text document with a name that matches too was left out
C24_Witness ==
    /\ searched.called /\ searched.file_type = "pdf"
    /\ searched.path = "fts_error"
    /\ searched.results # <<>>
    /\ \E f \in files : f.file_type # "pdf" /\ Like(f.filename, searched.query)

\* q occurs in s, ASCII letters without regard to case
LiteralSubstring(s, q) ==
    \E i \in 0..(Len(s) - Len(q)) :
        \A j \in 1..Len(q) : AsciiLower(s[i + j]) = AsciiLower(q[j])

\* C25: every hit of the substring search is of a document of which a chunk
\* content or the filename has the query as a literal substring.
C25_SubstringIsLiteral ==
    (searched.called /\ searched.path \in {"cleaned_empty", "special", "fts_error"}) =>
        \A i \in 1..Len(searched.results) :
            \E f \in files :
                /\ f.id = searched.results[i].file_id
                /\ \/ LiteralSubstring(f.filename, searched.query)
                   \/ \E c \in chunks : /\ c.file_id = f.id
                                         /\ LiteralSubstring(c.content, searched.query)

\* C29: the hits of search_files for a query that is not empty are of
\* pairwise different documents.
C29_OneHitPerDocument ==
    (searched.called /\ searched.query # <<>>) =>
        \A i, j \in 1..Len(searched.results) :
            i # j => searched.results[i].file_id # searched.results[j].file_id

\* C30: close() has been called on every connection search_files opened
\* when it returns.
C30_ConnectionsClosed ==
    searched.called => searched.unclosed = 0

\* ------------------------------------------------------------------------
\* Claims about bulk_upload (SpecBulk)
\* ------------------------------------------------------------------------

\* C27: bulk_upload calls upload_file for matching files only and for none
\* twice, goes on after a failed upload, and returns total_processed =
\* successful + failed = the number of matching files, every one of them
\* called once.
C27_BulkCallsEachMatchingFileOnce ==
    /\ \A i \in 1..Len(bulk.calls) :
          /\ bulk.calls[i] \in Matching
          /\ \A j \in 1..Len(bulk.calls) : i # j => bulk.calls[i] # bulk.calls[j]
    /\ (bulk.pc = "done" /\ "error" \notin DOMAIN bulk.result) =>
          /\ {bulk.calls[i] : i \in 1..Len(bulk.calls)} = Matching
          /\ bulk.result.total_processed = bulk.result.successful + bulk.result.failed
          /\ bulk.result.total_processed = Cardinality(Matching)

\* the first upload of the loop failed and the loop went on to two more
C27_Witness ==
    /\ bulk.pc = "done" /\ "error" \notin DOMAIN bulk.result
    /\ bulk.result.failed = 1 /\ bulk.result.successful = 2
    /\ bulk.failed[1].file = bulk.calls[1]

====
